---- MODULE Spec2Model ----
(***************************************************************************)
(* Model of yarn-easy-patch (bin/cli.js): the process runner, the patch    *)
(* locator, the patch applier, stripVersion and the top-level driver.      *)
(* Strings are sequences of one-character strings; indices follow the      *)
(* JavaScript convention (0-based, -1 for "not found").                    *)
(***************************************************************************)
EXTENDS Integers, Sequences, FiniteSets, TLC

\* ------------------------------------------------------------------------
\* Bounds of the model
\* ------------------------------------------------------------------------
\* longest name and scope of a generated package identifier
MaxName == 2
\* longest version/tag suffix of a generated package identifier
MaxSuffix == 2
\* number of distinct patch files (hashes) of the main package
MaxHashes == 2
\* most chunks of output a child emits
MaxChunks == 2

\* ------------------------------------------------------------------------
\* JavaScript string primitives used by the program
\* ------------------------------------------------------------------------
\* String.prototype.indexOf for a one-character needle
indexOf(s, c) ==
  IF \E i \in 1..Len(s) : s[i] = c
    THEN (CHOOSE i \in 1..Len(s) : s[i] = c /\ \A j \in 1..(i - 1) : s[j] # c) - 1
    ELSE -1

\* String.prototype.substring(from, to), 0-based, end exclusive
substring(s, from, to) == SubSeq(s, from + 1, to)

\* String.prototype.startsWith
startsWith(s, prefix) ==
  /\ Len(prefix) <= Len(s)
  /\ SubSeq(s, 1, Len(prefix)) = prefix

\* String.prototype.endsWith
endsWith(s, suffix) ==
  /\ Len(suffix) <= Len(s)
  /\ SubSeq(s, Len(s) - Len(suffix) + 1, Len(s)) = suffix

\* packageName.replace(/\//g, "-")
normalizeName(s) == [i \in 1..Len(s) |-> IF s[i] = "/" THEN "-" ELSE s[i]]

\* ------------------------------------------------------------------------
\* stripVersion
\* ------------------------------------------------------------------------
\* A slip of the scoped branch: the offset of the scope is forgotten
stripVersionNoOffset(packageName) ==
  IF startsWith(packageName, <<"@">>)
    THEN LET firstSlash == indexOf(packageName, "/") IN
         IF firstSlash = -1 THEN packageName
         ELSE LET afterScope == substring(packageName, firstSlash, Len(packageName))
                  versionAt == indexOf(afterScope, "@") IN
              IF versionAt = -1 THEN packageName
              ELSE substring(packageName, 0, versionAt)
    ELSE LET atIndex == indexOf(packageName, "@") IN
         IF atIndex = -1 THEN packageName ELSE substring(packageName, 0, atIndex)

stripVersion(packageName) ==
  IF startsWith(packageName, <<"@">>)
    THEN LET firstSlash == indexOf(packageName, "/") IN
         IF firstSlash = -1 THEN packageName
         ELSE LET afterScope == substring(packageName, firstSlash, Len(packageName))
                  versionAt == indexOf(afterScope, "@") IN
              IF versionAt = -1 THEN packageName
              ELSE substring(packageName, 0, firstSlash + versionAt)
    ELSE LET atIndex == indexOf(packageName, "@") IN
         IF atIndex = -1 THEN packageName ELSE substring(packageName, 0, atIndex)

\* path.join(dir, file)
join(d, f) == d \o <<"/">> \o f

\* String.prototype.lastIndexOf for a one-character needle
lastIndexOf(s, c) ==
  IF \E i \in 1..Len(s) : s[i] = c
    THEN (CHOOSE i \in 1..Len(s) : s[i] = c /\ \A j \in (i + 1)..Len(s) : s[j] # c) - 1
    ELSE -1

\* path.basename(p)
basename(p) == substring(p, lastIndexOf(p, "/") + 1, Len(p))

\* ------------------------------------------------------------------------
\* Package identifiers, patch file names and the patches directory
\* ------------------------------------------------------------------------
PkgP == <<"p">>
PkgPQ == <<"p", "-", "q">>
PkgSP == <<"@", "s", "/", "p">>
Version1 == <<"@", "1">>

PatchExt == <<".", "p", "a", "t", "c", "h">>
NpmMark == <<"-", "n", "p", "m", "-">>
HashChars == <<"a", "b", "c", "d", "e", "f">>

\* Yarn's name of a patch of pkg: <name with / as ->-npm-<version>-<hash>.patch
PatchFile(pkg, h) ==
  normalizeName(pkg) \o NpmMark \o <<"1", "-", HashChars[h]>> \o PatchExt

\* a byproduct that is no patch file
OrigFile == PatchFile(PkgP, 1) \o <<".", "o", "r", "i", "g">>

\* the file names that can occur in the patches directory, in the order in
\* which the directory enumerates them (the same order at every enumeration)
AllFiles ==
  <<PatchFile(PkgPQ, 1)>> \o [h \in 1..MaxHashes |-> PatchFile(PkgP, h)]
     \o <<PatchFile(PkgSP, 1), OrigFile>>

FileSet == {AllFiles[i] : i \in 1..Len(AllFiles)}

PatchesDir == <<".", "y", "/", "p">>

\* file is named after package pkg by Yarn's convention
BelongsTo(file, pkg) ==
  /\ startsWith(file, normalizeName(pkg) \o NpmMark)
  /\ endsWith(file, PatchExt)

\* fs.readdir of the patches directory holding the files of set d
readdir(d) == SelectSeq(AllFiles, LAMBDA f : f \in d)

\* ------------------------------------------------------------------------
\* findExistingPatches
\* ------------------------------------------------------------------------
findExistingPatches(packageName, accessible, d) ==
  IF ~accessible THEN <<>>
  ELSE LET files == readdir(d)
           normalizedName == normalizeName(packageName)
           matchingPatches ==
             SelectSeq(files, LAMBDA file :
               /\ endsWith(file, PatchExt)
               /\ startsWith(file, normalizedName \o <<"-">>))
       IN [i \in 1..Len(matchingPatches) |-> join(PatchesDir, matchingPatches[i])]

\* the base names of a list of paths
BaseNames(paths) == {basename(paths[i]) : i \in 1..Len(paths)}

\* ------------------------------------------------------------------------
\* Command line
\* ------------------------------------------------------------------------
ShortHelp == <<"-", "h">>
LongHelp == <<"-", "-", "h", "e", "l", "p">>
ShortVersion == <<"-", "v">>
LongVersion == <<"-", "-", "v", "e", "r", "s", "i", "o", "n">>

includes(a, x) == \E i \in 1..Len(a) : a[i] = x

wantsVersion(a) == includes(a, LongVersion) \/ includes(a, ShortVersion)
wantsHelp(a) == includes(a, LongHelp) \/ includes(a, ShortHelp)

\* args.find(arg => !arg.startsWith("-")): <<>> stands for undefined
findPackageName(a) ==
  IF \E i \in 1..Len(a) : ~startsWith(a[i], <<"-">>)
    THEN a[CHOOSE i \in 1..Len(a) :
             /\ ~startsWith(a[i], <<"-">>)
             /\ \A j \in 1..(i - 1) : startsWith(a[j], <<"-">>)]
    ELSE <<>>

ArgVectors ==
  { <<>>, <<ShortHelp>>, <<ShortVersion>>, <<PkgP, LongHelp>>,
    <<PkgP>>, <<PkgP \o Version1>>, <<PkgSP \o Version1>> }

InstallablePkgs == {PkgP, PkgSP}

\* ------------------------------------------------------------------------
\* runCommand: the outcome of its 'close' and 'error' handlers
\* ------------------------------------------------------------------------
\* exit code null of a child that was ended by a signal
NullCode == -1
\* code of the result of a timed-out call
TimeoutCode == 124
\* code of the result of a call whose child emitted 'error'
ErrorCode == 1
\* status of process.exit(1)
FailureStatus == 1

ChildCodes == {0, 1, NullCode}

\* exit = TRUE: the handler called process.exit(1); otherwise it resolved
\* the promise with {code, timedOut}
Exits == [exit |-> TRUE, code |-> FailureStatus, timedOut |-> FALSE]
Resolves(code, timedOut) == [exit |-> FALSE, code |-> code, timedOut |-> timedOut]

\* A slip: the timedOut flag is not looked at
closeHandlerIgnoresTimeout(timedOut, exitOnError, code) ==
  IF code = 0 \/ ~exitOnError THEN Resolves(code, FALSE) ELSE Exits

\* A slip: a failed command is handed back to the caller whatever exitOnError says
closeHandlerNeverExits(timedOut, exitOnError, code) ==
  IF timedOut THEN Resolves(TimeoutCode, TRUE) ELSE Resolves(code, FALSE)

\* A slip: a timeout ends the process whatever exitOnError says
closeHandlerTimeoutFatal(timedOut, exitOnError, code) ==
  IF timedOut THEN Exits
  ELSE IF code = 0 \/ ~exitOnError THEN Resolves(code, FALSE) ELSE Exits

closeHandler(timedOut, exitOnError, code) ==
  IF timedOut
    THEN IF exitOnError THEN Exits ELSE Resolves(TimeoutCode, TRUE)
    ELSE IF code = 0 \/ ~exitOnError THEN Resolves(code, FALSE) ELSE Exits

\* A slip: a spawn failure is handed back to the caller whatever exitOnError says
errorHandlerNeverExits(exitOnError) == Resolves(ErrorCode, FALSE)

errorHandler(exitOnError) ==
  IF exitOnError THEN Exits ELSE Resolves(ErrorCode, FALSE)

\* A slip: exitOnError is off unless asked for
DefaultNeverExits == FALSE

\* exitOnError of runCommand's callers
DefaultExitOnError == TRUE
\* A slip: the applier's calls leave exitOnError at its default
ApplierUsesDefault == DefaultExitOnError
ApplierExitOnError == FALSE

\* the commands the program runs
ModifyingCmds == {"patch", "gitApply"}
CheckCmds == {"patchDryRun", "gitCheck"}

\* the phrases of yarn patch's output the driver looks for; other text of
\* any command's output is not modelled
Phrases == {"folder", "command"}
Chunks(cmd) == IF cmd = "yarnPatch" THEN Phrases ELSE {}

\* patchOutput.match(...) of the two phrase templates
folderMatch(out) == \E i \in 1..Len(out) : out[i] = "folder"
commandMatch(out) == \E i \in 1..Len(out) : out[i] = "command"

\* A slip: the output is rejected only when both phrases are missing
parseFailsOnlyBoth(out) == ~folderMatch(out) /\ ~commandMatch(out)

\* line 371: !folderMatch || !commandMatch
parseFails(out) == ~folderMatch(out) \/ ~commandMatch(out)

NoResult == [code |-> 0, timedOut |-> FALSE, stdout |-> <<>>]

IdleRunner ==
  [cmd |-> "none", exitOnError |-> TRUE, child |-> "none", timerArmed |-> FALSE,
   timedOut |-> FALSE, killed |-> FALSE, settled |-> FALSE, stdout |-> <<>>, result |-> NoResult,
   events |-> <<>>]

\* the synchronous part of runCommand: spawn the child, arm the timer
spawn(cmd, exitOnError) ==
  [cmd |-> cmd, exitOnError |-> exitOnError, child |-> "running",
   timerArmed |-> TRUE, timedOut |-> FALSE, killed |-> FALSE, settled |-> FALSE,
   stdout |-> <<>>,
   result |-> NoResult, events |-> <<>>]

\* locals of one tryApplyPatch call: the codes of the results it got (<<>>
\* when the command was not run) and the value it returned
NoCall == [dryRun |-> <<>>, apply |-> <<>>, gitCheck |-> <<>>, ret |-> <<>>]

\* what yarn patch-commit can write for package pkg
FinalizeOutputs(pkg) == {f \in FileSet : BelongsTo(f, pkg)}

\* ------------------------------------------------------------------------
\* State
\* ------------------------------------------------------------------------
VARIABLES
  args,             \* process.argv.slice(2)
  installed,        \* the package directories under node_modules
  dirExists,        \* the patches directory is accessible
  dirReadable,      \* fs.readdir of the patches directory succeeds
  dirExistsAtStart, \* history: dirExists when the process started
  dir,              \* the file names in the patches directory
  target,           \* number of modifications made to the target directory
  pc,               \* position of the top-level code
  exitCode,         \* <<>> while running, <<status>> once the process ended
  packageName,
  existingPatches,
  pi,               \* index of the patch the apply loop is at
  di,               \* index of the patch the deletion loop is at
  tap,              \* locals of the current tryApplyPatch call
  rc,               \* the current runCommand call
  callCmds,         \* history: commands spawned by the current tryApplyPatch call
  callEvents,       \* history: the callbacks each of these commands went through
  targetAtCall,     \* history: target when the current tryApplyPatch call began
  attempted,        \* history: patches handed to tryApplyPatch
  ran,              \* history: commands spawned by the run
  created,          \* history: files written by yarn patch-commit
  dirAtFinalize,    \* history: dir when the finalize step completed
  deleted,          \* history: files the driver unlinked
  unlinkFailed,     \* history: files whose unlink threw
  dirAtStart        \* history: dir when the process started

envVars == <<args, installed, dirReadable, dirExistsAtStart, dirAtStart>>
fsVars == <<dirExists, dir, target>>
drvVars == <<pc, exitCode, packageName, existingPatches, pi, di, tap>>
histVars == <<callCmds, callEvents, targetAtCall, attempted, ran, created, dirAtFinalize,
              deleted, unlinkFailed>>

\* stripVersion's own specification (below) has its state here
VARIABLES svParts, svIdent, svOut, svAgain, svPc

svVars == <<svParts, svIdent, svOut, svAgain, svPc>>

vars == <<envVars, fsVars, drvVars, rc, histVars, svVars>>

SvIdle ==
  /\ svParts = [scope |-> <<>>, name |-> <<>>, hasSuffix |-> FALSE, suffix |-> <<>>]
  /\ svIdent = <<>>
  /\ svOut = <<>>
  /\ svAgain = <<>>
  /\ svPc = "idle"

\* ------------------------------------------------------------------------
\* The driver (top-level code of cli.js)
\* ------------------------------------------------------------------------
cleanPackageName == stripVersion(packageName)

DriverStart ==
  /\ target = 0
  /\ exitCode = <<>>
  /\ packageName = <<>>
  /\ existingPatches = <<>>
  /\ pi = 1
  /\ di = 1
  /\ tap = NoCall
  /\ rc = IdleRunner
  /\ callCmds = <<>>
  /\ callEvents = <<>>
  /\ targetAtCall = 0
  /\ attempted = <<>>
  /\ ran = {}
  /\ created = {}
  /\ dirAtFinalize = {}
  /\ deleted = {}
  /\ unlinkFailed = {}
  /\ dirAtStart = dir

Init ==
  /\ args \in ArgVectors
  /\ installed \in SUBSET InstallablePkgs
  /\ dirExists \in BOOLEAN
  /\ dir \in SUBSET FileSet
  /\ dirExists \/ dir = {}
  /\ dirReadable \in BOOLEAN
  /\ dirExists \/ dirReadable
  /\ dirExistsAtStart = dirExists
  /\ pc = "args"
  /\ DriverStart
  /\ SvIdle

\* process.exit(status)
ExitWith(status) ==
  /\ pc' = "exited"
  /\ exitCode' = <<status>>

\* the top-level code ran to its end: the process ends with status 0
RunsToEnd ==
  /\ pc' = "done"
  /\ exitCode' = <<0>>

\* lines 233-296: --version, the package name, --help
ParseArgs ==
  /\ pc = "args"
  /\ IF wantsVersion(args)
       THEN ExitWith(0) /\ UNCHANGED packageName
       ELSE LET name == findPackageName(args) IN
            /\ packageName' = name
            /\ IF name = <<>> \/ wantsHelp(args)
                 THEN ExitWith(0)
                 ELSE pc' = "start" /\ UNCHANGED exitCode
  /\ UNCHANGED <<envVars, fsVars, existingPatches, pi, di, tap, rc, histVars, svVars>>

\* A slip: the missing package is reported but the run goes on
CheckTargetGoesOn ==
  /\ pc = "start"
  /\ pc' = "locate"
  /\ UNCHANGED <<envVars, fsVars, exitCode, packageName, existingPatches, pi, di, tap,
                 rc, histVars, svVars>>

\* lines 300-316: the package must exist in node_modules
CheckTarget ==
  /\ pc = "start"
  /\ IF cleanPackageName \notin installed
       THEN ExitWith(FailureStatus)
       ELSE pc' = "locate" /\ UNCHANGED exitCode
  /\ UNCHANGED <<envVars, fsVars, packageName, existingPatches, pi, di, tap, rc,
                 histVars, svVars>>

\* A slip: the directory is read without the fs.access test, and a missing
\* directory ends the process like an unreadable one
LocateExistingNeedsDir ==
  /\ pc = "locate"
  /\ IF ~dirExists \/ ~dirReadable
       THEN ExitWith(FailureStatus) /\ UNCHANGED <<existingPatches, pi>>
       ELSE /\ existingPatches' = findExistingPatches(cleanPackageName, dirExists, dir)
            /\ pi' = 1
            /\ pc' = "applyLoop"
            /\ UNCHANGED exitCode
  /\ UNCHANGED <<envVars, fsVars, packageName, di, tap, rc, histVars, svVars>>

\* lines 318-319; when the directory passes fs.access and fs.readdir (line
\* 104) rejects, nothing catches the rejection and the process ends with
\* status 1
LocateExisting ==
  /\ pc = "locate"
  /\ IF dirExists /\ ~dirReadable
       THEN ExitWith(FailureStatus) /\ UNCHANGED <<existingPatches, pi>>
       ELSE /\ existingPatches' = findExistingPatches(cleanPackageName, dirExists, dir)
            /\ pi' = 1
            /\ pc' = "applyLoop"
            /\ UNCHANGED exitCode
  /\ UNCHANGED <<envVars, fsVars, packageName, di, tap, rc, histVars, svVars>>

\* what tryApplyPatch returns after a real apply, and after both checks failed
\* A slip: the exit code of the real apply is not looked at
applierReturnAlwaysSuccess(applyCode) == [success |-> TRUE, canApply |-> TRUE]
applierReturn(applyCode) == [success |-> applyCode = 0, canApply |-> TRUE]
applierGiveUp == [success |-> FALSE, canApply |-> FALSE]

\* lines 329-333, 141-153: the loop calls tryApplyPatch, which runs the dry run
StartDryRun ==
  /\ pc = "applyLoop"
  /\ pi <= Len(existingPatches)
  /\ rc' = spawn("patchDryRun", ApplierExitOnError)
  /\ tap' = NoCall
  /\ callCmds' = <<"patchDryRun">>
  /\ callEvents' = <<>>
  /\ targetAtCall' = target
  /\ attempted' = Append(attempted, existingPatches[pi])
  /\ ran' = ran \cup {"patchDryRun"}
  /\ pc' = "dryRun"
  /\ UNCHANGED <<envVars, fsVars, exitCode, packageName, existingPatches, pi, di,
                 created, dirAtFinalize, deleted, unlinkFailed, svVars>>

\* lines 155-168 and 176-181
AfterDryRun ==
  /\ pc = "dryRun"
  /\ rc.settled
  /\ tap' = [tap EXCEPT !.dryRun = <<rc.result.code>>]
  /\ LET next == IF rc.result.code = 0 THEN "patch" ELSE "gitCheck" IN
       /\ rc' = spawn(next, ApplierExitOnError)
       /\ callCmds' = Append(callCmds, next)
       /\ callEvents' = Append(callEvents, rc.events)
       /\ ran' = ran \cup {next}
       /\ pc' = IF next = "patch" THEN "patchApply" ELSE "gitCheck"
  /\ UNCHANGED <<envVars, fsVars, exitCode, packageName, existingPatches, pi, di,
                 targetAtCall, attempted, created, dirAtFinalize, deleted,
                 unlinkFailed, svVars>>

\* A slip: when the real patch fails, git apply is tried as well
AfterPatchApplyFallsBack ==
  /\ pc = "patchApply"
  /\ rc.settled
  /\ callEvents' = Append(callEvents, rc.events)
  /\ IF rc.result.code = 0
       THEN /\ tap' = [tap EXCEPT !.apply = <<rc.result.code>>,
                                  !.ret = <<applierReturn(rc.result.code)>>]
            /\ pi' = pi + 1
            /\ pc' = "applyLoop"
            /\ UNCHANGED <<rc, callCmds, ran>>
       ELSE /\ tap' = [tap EXCEPT !.apply = <<rc.result.code>>]
            /\ rc' = spawn("gitCheck", ApplierExitOnError)
            /\ callCmds' = Append(callCmds, "gitCheck")
            /\ ran' = ran \cup {"gitCheck"}
            /\ pc' = "gitCheck"
            /\ UNCHANGED pi
  /\ UNCHANGED <<envVars, fsVars, exitCode, packageName, existingPatches, di,
                 targetAtCall, attempted, created, dirAtFinalize, deleted,
                 unlinkFailed, svVars>>

\* lines 169-173 and the loop body 335-351
AfterPatchApply ==
  /\ pc = "patchApply"
  /\ rc.settled
  /\ tap' = [tap EXCEPT !.apply = <<rc.result.code>>,
                        !.ret = <<applierReturn(rc.result.code)>>]
  /\ pi' = pi + 1
  /\ pc' = "applyLoop"
  /\ callEvents' = Append(callEvents, rc.events)
  /\ UNCHANGED <<envVars, fsVars, exitCode, packageName, existingPatches, di, rc,
                 callCmds, targetAtCall, attempted, ran, created, dirAtFinalize,
                 deleted, unlinkFailed, svVars>>

\* lines 183-189 and 197-205 with the loop body 335-351
AfterGitCheck ==
  /\ pc = "gitCheck"
  /\ rc.settled
  /\ callEvents' = Append(callEvents, rc.events)
  /\ IF rc.result.code = 0
       THEN /\ tap' = [tap EXCEPT !.gitCheck = <<rc.result.code>>]
            /\ rc' = spawn("gitApply", ApplierExitOnError)
            /\ callCmds' = Append(callCmds, "gitApply")
            /\ ran' = ran \cup {"gitApply"}
            /\ pc' = "gitApply"
            /\ UNCHANGED pi
       ELSE /\ tap' = [tap EXCEPT !.gitCheck = <<rc.result.code>>,
                                  !.ret = <<applierGiveUp>>]
            /\ pi' = pi + 1
            /\ pc' = "applyLoop"
            /\ UNCHANGED <<rc, callCmds, ran>>
  /\ UNCHANGED <<envVars, fsVars, exitCode, packageName, existingPatches, di,
                 targetAtCall, attempted, created, dirAtFinalize, deleted,
                 unlinkFailed, svVars>>

\* lines 190-194 and the loop body 335-351
AfterGitApply ==
  /\ pc = "gitApply"
  /\ rc.settled
  /\ tap' = [tap EXCEPT !.apply = <<rc.result.code>>,
                        !.ret = <<applierReturn(rc.result.code)>>]
  /\ pi' = pi + 1
  /\ pc' = "applyLoop"
  /\ callEvents' = Append(callEvents, rc.events)
  /\ UNCHANGED <<envVars, fsVars, exitCode, packageName, existingPatches, di, rc,
                 callCmds, targetAtCall, attempted, ran, created, dirAtFinalize,
                 deleted, unlinkFailed, svVars>>

\* lines 356-361: the loop is over (or there was nothing to apply)
StartYarnPatch ==
  /\ pc = "applyLoop"
  /\ pi > Len(existingPatches)
  /\ rc' = spawn("yarnPatch", DefaultExitOnError)
  /\ tap' = NoCall
  /\ callCmds' = <<>>
  /\ callEvents' = <<>>
  /\ targetAtCall' = target
  /\ ran' = ran \cup {"yarnPatch"}
  /\ pc' = "yarnPatch"
  /\ UNCHANGED <<envVars, fsVars, exitCode, packageName, existingPatches, pi, di,
                 attempted, created, dirAtFinalize, deleted, unlinkFailed, svVars>>

\* lines 363-400: parse the output, then rsync
AfterYarnPatch ==
  /\ pc = "yarnPatch"
  /\ rc.settled
  /\ LET patchOutput == rc.result.stdout IN
     IF parseFails(patchOutput)
       THEN ExitWith(FailureStatus) /\ UNCHANGED <<rc, ran>>
       ELSE /\ rc' = spawn("rsync", DefaultExitOnError)
            /\ ran' = ran \cup {"rsync"}
            /\ pc' = "sync"
            /\ UNCHANGED exitCode
  /\ UNCHANGED <<envVars, fsVars, packageName, existingPatches, pi, di, tap,
                 callCmds, callEvents, targetAtCall, attempted, created, dirAtFinalize, deleted,
                 unlinkFailed, svVars>>

\* lines 401-410
AfterSync ==
  /\ pc = "sync"
  /\ rc.settled
  /\ rc' = spawn("patchCommit", DefaultExitOnError)
  /\ ran' = ran \cup {"patchCommit"}
  /\ pc' = "finalize"
  /\ UNCHANGED <<envVars, fsVars, exitCode, packageName, existingPatches, pi, di, tap,
                 callCmds, callEvents, targetAtCall, attempted, created, dirAtFinalize, deleted,
                 unlinkFailed, svVars>>

\* lines 424-426: the patches that exist now but were not there before
newlyCreatedPatches(currentPatches, before) ==
  SelectSeq(currentPatches, LAMBDA p : basename(p) \notin BaseNames(before))

\* A slip: the old patches are deleted whether or not a new one exists
shouldCleanUpAlways(before, accessible, d) == Len(before) > 0

\* A slip: a single old patch is not cleaned up
shouldCleanUpOnlyMany(before, accessible, d) ==
  /\ Len(before) > 1
  /\ Len(newlyCreatedPatches(
         findExistingPatches(cleanPackageName, accessible, d), before)) > 0

\* lines 415 and 428: the old patches are deleted when there were some and a
\* new one exists
shouldCleanUp(before, accessible, d) ==
  /\ Len(before) > 0
  /\ Len(newlyCreatedPatches(
         findExistingPatches(cleanPackageName, accessible, d), before)) > 0

\* lines 412-433 and 450
AfterFinalize ==
  /\ pc = "finalize"
  /\ rc.settled
  /\ dirAtFinalize' = dir
  /\ IF shouldCleanUp(existingPatches, dirExists, dir)
       THEN /\ pc' = "cleanup"
            /\ di' = 1
            /\ UNCHANGED exitCode
       ELSE RunsToEnd /\ UNCHANGED di
  /\ UNCHANGED <<envVars, fsVars, packageName, existingPatches, pi, tap, rc,
                 callCmds, callEvents, targetAtCall, attempted, ran, created, deleted,
                 unlinkFailed, svVars>>

\* A slip: a failed fs.unlink is not caught and ends the process
RemoveOldPatchFatal ==
  /\ pc = "cleanup"
  /\ di <= Len(existingPatches)
  /\ LET oldPatchName == basename(existingPatches[di]) IN
     \E removed \in BOOLEAN :
       IF removed /\ oldPatchName \in dir
         THEN /\ dir' = dir \ {oldPatchName}
              /\ deleted' = deleted \cup {oldPatchName}
              /\ UNCHANGED <<unlinkFailed, pc, exitCode>>
         ELSE /\ unlinkFailed' = unlinkFailed \cup {oldPatchName}
              /\ ExitWith(FailureStatus)
              /\ UNCHANGED <<dir, deleted>>
  /\ di' = di + 1
  /\ UNCHANGED <<envVars, dirExists, target, packageName,
                 existingPatches, pi, tap, rc, callCmds, callEvents, targetAtCall, attempted,
                 ran, created, dirAtFinalize, svVars>>

\* A slip: the cleanup deletes whatever patch of the package it finds
RemoveOldPatchAny ==
  /\ pc = "cleanup"
  /\ di <= Len(existingPatches)
  /\ \E f \in dir :
       /\ BelongsTo(f, cleanPackageName)
       /\ dir' = dir \ {f}
       /\ deleted' = deleted \cup {f}
       /\ UNCHANGED unlinkFailed
  /\ di' = di + 1
  /\ UNCHANGED <<envVars, dirExists, target, pc, exitCode, packageName,
                 existingPatches, pi, tap, rc, callCmds, callEvents, targetAtCall, attempted,
                 ran, created, dirAtFinalize, svVars>>

\* lines 436-446: fs.unlink of one old patch removes it or throws
RemoveOldPatch ==
  /\ pc = "cleanup"
  /\ di <= Len(existingPatches)
  /\ LET oldPatchName == basename(existingPatches[di]) IN
     \E removed \in BOOLEAN :
       IF removed /\ oldPatchName \in dir
         THEN /\ dir' = dir \ {oldPatchName}
              /\ deleted' = deleted \cup {oldPatchName}
              /\ UNCHANGED unlinkFailed
         ELSE /\ unlinkFailed' = unlinkFailed \cup {oldPatchName}
              /\ UNCHANGED <<dir, deleted>>
  /\ di' = di + 1
  /\ UNCHANGED <<envVars, dirExists, target, pc, exitCode, packageName,
                 existingPatches, pi, tap, rc, callCmds, callEvents, targetAtCall, attempted,
                 ran, created, dirAtFinalize, svVars>>

\* line 450: the end of the top-level code
Finish ==
  /\ pc = "cleanup"
  /\ di > Len(existingPatches)
  /\ RunsToEnd
  /\ UNCHANGED <<envVars, fsVars, packageName, existingPatches, pi, di, tap, rc,
                 histVars, svVars>>

\* ------------------------------------------------------------------------
\* runCommand's callbacks
\* ------------------------------------------------------------------------
Running == pc \notin {"exited", "done"}

\* A slip: the timeout is noted but the child is not killed
TimerFiresWithoutKill ==
  /\ Running
  /\ rc.timerArmed
  /\ rc' = [rc EXCEPT !.timedOut = TRUE, !.timerArmed = FALSE,
                      !.events = Append(@, "timer")]
  /\ UNCHANGED <<envVars, fsVars, drvVars, histVars, svVars>>

\* lines 33-36: the timeout expires, unless clearTimeout disarmed it
TimerFires ==
  /\ Running
  /\ rc.timerArmed
  /\ rc' = [rc EXCEPT !.timedOut = TRUE, !.killed = TRUE, !.timerArmed = FALSE,
                      !.events = Append(@, "timer")]
  /\ UNCHANGED <<envVars, fsVars, drvVars, histVars, svVars>>

\* lines 38-42: a chunk of the child's output arrives
ChildData ==
  /\ Running
  /\ rc.child = "running"
  /\ Len(rc.stdout) < MaxChunks
  /\ \E chunk \in Chunks(rc.cmd) :
       rc' = [rc EXCEPT !.stdout = Append(@, chunk)]
  /\ UNCHANGED <<envVars, fsVars, drvVars, histVars, svVars>>

\* what the child did to the file system by the time it closed: a real
\* apply may have changed the target, yarn patch-commit may have written a
\* patch file; the checks and the other commands touch neither
ChildEffect ==
  /\ IF rc.cmd \in ModifyingCmds
       THEN target' \in {target, target + 1}
       ELSE target' = target
  /\ IF rc.cmd = "patchCommit"
       THEN \E w \in {s \in SUBSET FinalizeOutputs(cleanPackageName) : Cardinality(s) <= 1} :
              /\ dir' = dir \cup w
              /\ dirExists' = (dirExists \/ w # {})
              /\ created' = created \cup w
       ELSE UNCHANGED <<dir, dirExists, created>>

\* lines 50-77: the child's 'close' event
ChildCloses ==
  /\ Running
  /\ rc.child = "running"
  /\ \E code \in ChildCodes :
       LET out == closeHandler(rc.timedOut, rc.exitOnError, code) IN
         /\ rc' = [rc EXCEPT !.child = "closed", !.timerArmed = FALSE,
                             !.settled = ~out.exit,
                             !.result = [code |-> out.code, timedOut |-> out.timedOut,
                                         stdout |-> rc.stdout],
                             !.events = Append(@, IF code = 0 THEN "close0" ELSE "closeFail")]
         /\ IF out.exit THEN ExitWith(out.code) ELSE UNCHANGED <<pc, exitCode>>
  /\ ChildEffect
  /\ UNCHANGED <<envVars, packageName, existingPatches, pi, di, tap, callCmds,
                 callEvents, targetAtCall, attempted, ran, dirAtFinalize, deleted,
                 unlinkFailed, svVars>>

\* A slip: the 'error' handler forgets clearTimeout
ChildErrorsKeepsTimer ==
  /\ Running
  /\ rc.child = "running"
  /\ LET out == errorHandler(rc.exitOnError) IN
       /\ rc' = [rc EXCEPT !.child = "errored",
                           !.settled = ~out.exit,
                           !.result = [code |-> out.code, timedOut |-> out.timedOut,
                                       stdout |-> rc.stdout],
                           !.events = Append(@, "error")]
       /\ IF out.exit THEN ExitWith(out.code) ELSE UNCHANGED <<pc, exitCode>>
  /\ UNCHANGED <<envVars, fsVars, packageName, existingPatches, pi, di, tap, histVars,
                 svVars>>

\* lines 79-87: the child's 'error' event (the program could not be spawned)
ChildErrors ==
  /\ Running
  /\ rc.child = "running"
  /\ LET out == errorHandler(rc.exitOnError) IN
       /\ rc' = [rc EXCEPT !.child = "errored", !.timerArmed = FALSE,
                           !.settled = ~out.exit,
                           !.result = [code |-> out.code, timedOut |-> out.timedOut,
                                       stdout |-> rc.stdout],
                           !.events = Append(@, "error")]
       /\ IF out.exit THEN ExitWith(out.code) ELSE UNCHANGED <<pc, exitCode>>
  /\ UNCHANGED <<envVars, fsVars, packageName, existingPatches, pi, di, tap, histVars,
                 svVars>>

\* lines 50-77 again: 'close' follows 'error' for a child that was never
\* spawned; the promise is settled already, so resolve does nothing
ChildClosesLate ==
  /\ Running
  /\ rc.child = "errored"
  /\ \E code \in ChildCodes :
       LET out == closeHandler(rc.timedOut, rc.exitOnError, code) IN
         /\ rc' = [rc EXCEPT !.child = "closed", !.events = Append(@, "closeLate")]
         /\ IF out.exit THEN ExitWith(out.code) ELSE UNCHANGED <<pc, exitCode>>
  /\ UNCHANGED <<envVars, fsVars, packageName, existingPatches, pi, di, tap, histVars,
                 svVars>>

Next ==
  \/ ParseArgs
  \/ CheckTarget
  \/ LocateExisting
  \/ StartDryRun
  \/ AfterDryRun
  \/ AfterPatchApply
  \/ AfterGitCheck
  \/ AfterGitApply
  \/ StartYarnPatch
  \/ AfterYarnPatch
  \/ AfterSync
  \/ AfterFinalize
  \/ RemoveOldPatch
  \/ Finish
  \/ TimerFires
  \/ ChildData
  \/ ChildCloses
  \/ ChildErrors
  \/ ChildClosesLate

Spec == Init /\ [][Next]_vars

\* the steps of the top-level code: each is the continuation of an await or
\* synchronous code, which the event loop runs as soon as it can
DriverStep ==
  \/ ParseArgs
  \/ CheckTarget
  \/ LocateExisting
  \/ StartDryRun
  \/ AfterDryRun
  \/ AfterPatchApply
  \/ AfterGitCheck
  \/ AfterGitApply
  \/ StartYarnPatch
  \/ AfterYarnPatch
  \/ AfterSync
  \/ AfterFinalize
  \/ RemoveOldPatch
  \/ Finish

\* a child that was sent SIGTERM closes (or reports that it could not be
\* killed)
KilledChildCloses == rc.killed /\ (ChildCloses \/ ChildErrors)

\* The program under the scheduling of the event loop: continuations run, an
\* armed timer fires unless it is cleared first, and a killed child closes.
\* A child that has not been killed may close at any time, or never.
SpecFair ==
  /\ Init
  /\ [][Next]_vars
  /\ WF_vars(DriverStep)
  /\ WF_vars(TimerFires)
  /\ WF_vars(KilledChildCloses)

\* states the program can be in
TypeOK ==
  /\ pc \in {"args", "start", "locate", "applyLoop", "dryRun", "patchApply",
             "gitCheck", "gitApply", "yarnPatch", "sync", "finalize", "cleanup",
             "done", "exited"}
  /\ exitCode \in {<<>>, <<0>>, <<1>>}
  /\ dir \subseteq FileSet
  /\ target \in 0..Len(AllFiles)
  /\ Len(rc.stdout) <= MaxChunks

\* ------------------------------------------------------------------------
\* Properties of the driver, the locator, the applier and the runner
\* ------------------------------------------------------------------------
KnownPkgs == {PkgP, PkgPQ, PkgSP}

Located == pc \notin {"args", "start", "locate"}

\* the names in directory content d that match the package of this run
MatchingFiles(d) ==
  {f \in d : /\ endsWith(f, PatchExt)
             /\ startsWith(f, normalizeName(cleanPackageName) \o <<"-">>)}

Before == BaseNames(existingPatches)

\* C1: the locator returns no patch file of another package whose name is
\* the requested name followed by "-" and more (foo-bar when locating foo).
LocatorSkipsLongerNames ==
  Located =>
    \A q \in KnownPkgs :
      startsWith(q, cleanPackageName \o <<"-">>) =>
        \A i \in 1..Len(existingPatches) :
          ~BelongsTo(basename(existingPatches[i]), q)

\* C2 as stated: after a run that reached the end with status 0 exactly one
\* patch file matching the package remains, the one yarn patch-commit wrote,
\* and every older one is gone.
OneNewestPatchRemains ==
  pc = "done" =>
    /\ exitCode = <<0>>
    /\ Cardinality(MatchingFiles(dir)) = 1
    /\ MatchingFiles(dir) = created
    /\ (Before \ created) \cap dir = {}

\* C2 as amended: the same, for the runs in which yarn patch-commit wrote a
\* patch file whose name is not in the "before" set and no unlink failed.
OneNewestPatchRemainsIfNew ==
  (pc = "done" /\ created \ Before # {} /\ unlinkFailed = {}) =>
    /\ exitCode = <<0>>
    /\ Cardinality(MatchingFiles(dir)) = 1
    /\ MatchingFiles(dir) = created
    /\ Before \cap dir = {}

\* two old patches were superseded by a new one
OneNewestPatchWitness ==
  /\ pc = "done"
  /\ Cardinality(Before) >= 2
  /\ created \ Before # {}
  /\ deleted = Before
  /\ MatchingFiles(dir) = created

\* C3: when, after the finalize step, no matching file name is absent from
\* the "before" set, or the "before" set is empty, the driver deletes
\* nothing: the directory stays as the finalize step left it.
NoNewPatchNoDeletion ==
  (pc \in {"cleanup", "done"}
     /\ (MatchingFiles(dirAtFinalize) \subseteq Before \/ existingPatches = <<>>)) =>
    /\ pc = "done"
    /\ deleted = {}
    /\ unlinkFailed = {}
    /\ dir = dirAtFinalize

\* yarn patch-commit rewrote the one old patch under its old name
NoNewPatchWitness ==
  /\ pc = "done"
  /\ existingPatches # <<>>
  /\ created # {}
  /\ created \subseteq Before
  /\ dir = dirAtFinalize

\* C4: a run for a package whose directory is missing under node_modules
\* ends in the Start state with status 1: nothing was located or applied, no
\* command was run, the patches directory and the target are untouched.
EnteredStart ==
  /\ packageName # <<>>
  /\ ~wantsHelp(args)
  /\ ~wantsVersion(args)
  /\ pc \notin {"args", "start"}

MissingTargetStopsRun ==
  (EnteredStart /\ cleanPackageName \notin installed) =>
    /\ pc = "exited"
    /\ exitCode = <<1>>
    /\ ran = {}
    /\ rc = IdleRunner
    /\ existingPatches = <<>>
    /\ attempted = <<>>
    /\ target = 0
    /\ dir = dirAtStart
    /\ created = {}
    /\ deleted = {}

\* the versioned scoped package is not installed while its patch is there
MissingTargetWitness ==
  /\ pc = "exited"
  /\ args = <<PkgSP \o Version1>>
  /\ installed = {PkgP}
  /\ PatchFile(PkgSP, 1) \in dir

\* a check "reports failure" unless its child closed with code 0 before the
\* timer fired
Succeeded(events) == events = <<"close0">>

Returned == tap.ret # <<>>
Ret == tap.ret[1]

BothChecksFailed ==
  /\ Returned
  /\ Len(callEvents) >= 2
  /\ callCmds[1] = "patchDryRun"
  /\ ~Succeeded(callEvents[1])
  /\ callCmds[2] = "gitCheck"
  /\ ~Succeeded(callEvents[2])

\* C5: when the dry run of patch and the check of git apply both fail,
\* tryApplyPatch returns canApply = false, success = false, has run no
\* modifying command and has left the target as it was.
FailedChecksChangeNothing ==
  BothChecksFailed =>
    /\ Ret = [success |-> FALSE, canApply |-> FALSE]
    /\ \A i \in 1..Len(callCmds) : callCmds[i] \notin ModifyingCmds
    /\ target = targetAtCall

\* the dry run timed out and git could not be spawned
FailedChecksWitness ==
  /\ BothChecksFailed
  /\ callEvents[1] = <<"timer", "closeFail">>
  /\ callEvents[2] = <<"error">>

\* C6: tryApplyPatch returns success = true only if a real apply ran and
\* exited with code 0, canApply = true exactly when the check of one of the
\* two strategies succeeded, success implies canApply, and a dry run and a
\* real patch that both succeed give success = canApply = true.
ApplierResultRelation ==
  Returned =>
    /\ Ret.success =>
         \E i \in 1..Len(callCmds) :
           callCmds[i] \in ModifyingCmds /\ Succeeded(callEvents[i])
    /\ Ret.canApply <=>
         \E i \in 1..Len(callCmds) :
           callCmds[i] \in CheckCmds /\ Succeeded(callEvents[i])
    /\ Ret.success => Ret.canApply
    /\ (callCmds = <<"patchDryRun", "patch">> /\ Succeeded(callEvents[1])
          /\ Succeeded(callEvents[2])) =>
         Ret = [success |-> TRUE, canApply |-> TRUE]

\* git apply was accepted after the dry run of patch failed, and then failed
ApplierResultWitness ==
  /\ Returned
  /\ callCmds = <<"patchDryRun", "gitCheck", "gitApply">>
  /\ ~Succeeded(callEvents[3])
  /\ Ret = [success |-> FALSE, canApply |-> TRUE]

ApplyPcs == {"applyLoop", "dryRun", "patchApply", "gitCheck", "gitApply"}

\* C8: whatever happens to a patch of the "before" set, the run does not end
\* in ApplyExisting: the only step out of it is the start of yarn patch, and
\* by then every patch of the set has been handed to the applier, in order.
ApplyExistingNeverAborts ==
  [][/\ pc \in ApplyPcs => pc' \in ApplyPcs \cup {"yarnPatch"}
     /\ (pc \in ApplyPcs /\ pc' = "yarnPatch") => attempted' = existingPatches]_vars

\* the first patch changed the target, the second could not be applied after
\* a timeout, and the loop is over
ApplyExistingWitness ==
  /\ pc = "applyLoop"
  /\ Len(existingPatches) = 2
  /\ pi > Len(existingPatches)
  /\ attempted = existingPatches
  /\ target = 1
  /\ Returned
  /\ Ret = applierGiveUp
  /\ callEvents[1] = <<"timer", "closeFail">>

Ended == pc \in {"done", "exited"}

NoPackageGiven ==
  ~wantsVersion(args) /\ ~wantsHelp(args) /\ findPackageName(args) = <<>>
PackageNotFound == EnteredStart /\ cleanPackageName \notin installed
Unparseable ==
  /\ rc.cmd = "yarnPatch"
  /\ rc.events = <<"close0">>
  /\ ~(folderMatch(rc.stdout) /\ commandMatch(rc.stdout))
FinalizeFailed == rc.cmd = "patchCommit" /\ rc.child # "running" /\ ~Succeeded(rc.events)

\* C9 as stated: the process ends with status 0 on success and with status 1
\* when no package identifier was given, when the package is not installed,
\* when yarn patch's output cannot be parsed and when the finalize command
\* fails.
StatusOneOnEveryFailure ==
  Ended =>
    /\ pc = "done" => exitCode = <<0>>
    /\ NoPackageGiven => exitCode = <<1>>
    /\ PackageNotFound => exitCode = <<1>>
    /\ Unparseable => exitCode = <<1>>
    /\ FinalizeFailed => exitCode = <<1>>

\* C9 as amended: the same, except that a missing package identifier prints
\* the usage text and ends with status 0.
StatusOneOnFailureZeroOnUsage ==
  Ended =>
    /\ pc = "done" => exitCode = <<0>>
    /\ NoPackageGiven => exitCode = <<0>>
    /\ PackageNotFound => exitCode = <<1>>
    /\ Unparseable => exitCode = <<1>>
    /\ FinalizeFailed => exitCode = <<1>>

\* yarn patch-commit was killed by the timeout and the run ended
StatusWitness ==
  /\ Ended
  /\ FinalizeFailed
  /\ rc.events = <<"timer", "closeFail">>
  /\ existingPatches # <<>>

\* C10: with exitOnError, a child that closes with a code other than 0 or
\* cannot be spawned ends the process with status 1 and the promise is never
\* resolved; without exitOnError the process never ends in the call, and
\* once the child has closed or failed the promise is resolved with a result
\* whose code tells the outcome.
ExitOnErrorContract ==
  /\ (rc.exitOnError /\ rc.events # <<>>
        /\ rc.events[Len(rc.events)] \in {"closeFail", "error"}) =>
       /\ pc = "exited"
       /\ exitCode = <<1>>
       /\ ~rc.settled
  /\ ~rc.exitOnError =>
       /\ pc # "exited"
       /\ rc.child # "running" =>
            /\ rc.settled
            /\ rc.result.code = 0 <=> Succeeded(rc.events)
            /\ rc.result.timedOut => rc.events[1] = "timer"

\* a check that timed out was handed back with the code of a timeout
ExitOnErrorWitness ==
  /\ ~rc.exitOnError
  /\ rc.cmd = "gitCheck"
  /\ rc.events = <<"timer", "closeFail">>
  /\ rc.settled
  /\ rc.result.code = TimeoutCode
  /\ rc.result.timedOut

\* the current call timed out: the timer fired, then the child closed
TimedOutCall ==
  /\ rc.child = "closed"
  /\ Len(rc.events) = 2
  /\ rc.events[1] = "timer"
  /\ rc.events[2] \in {"close0", "closeFail"}

ApplierCmds == CheckCmds \cup ModifyingCmds

\* the child was sent SIGTERM and a timed-out result was handed back
TimeoutHandedBack ==
  /\ rc.killed
  /\ rc.settled
  /\ rc.result.code = TimeoutCode
  /\ rc.result.timedOut
  /\ pc # "exited"

\* the child was sent SIGTERM and the process ended with status 1
TimeoutEndsRun ==
  /\ rc.killed
  /\ ~rc.settled
  /\ pc = "exited"
  /\ exitCode = <<1>>

\* C11 as stated: a timeout ends the run with status 1 unless the caller
\* opted out of exitOnError, and then the child is killed and a result with
\* code 124 and the timedOut flag is returned; only the dry run and the check
\* opt out, so a timeout of any other command ends the run.
TimeoutFatalExceptChecks ==
  /\ TimedOutCall => IF rc.exitOnError THEN TimeoutEndsRun ELSE TimeoutHandedBack
  /\ TimedOutCall => IF rc.cmd \in CheckCmds THEN TimeoutHandedBack ELSE TimeoutEndsRun

\* C11 as amended: the same, except that all four commands of the applier
\* (dry run, check, real patch, real git apply) opt out; a timeout of yarn
\* patch, rsync or yarn patch-commit ends the run.
TimeoutFatalExceptApplier ==
  /\ TimedOutCall => IF rc.exitOnError THEN TimeoutEndsRun ELSE TimeoutHandedBack
  /\ TimedOutCall => IF rc.cmd \in ApplierCmds THEN TimeoutHandedBack ELSE TimeoutEndsRun

\* the real patch timed out and the run went on
TimeoutWitness ==
  /\ TimedOutCall
  /\ rc.cmd = "patch"
  /\ TimeoutHandedBack
  /\ pc = "applyLoop"

\* the run got past the locator although fs.access of the patches directory
\* failed
LocatedWithoutDir ==
  /\ EnteredStart
  /\ cleanPackageName \in installed
  /\ ~dirExistsAtStart
  /\ pc # "locate"

PlacesOf(c) == {i \in 1..Len(callCmds) : callCmds[i] = c}

\* C13: in every tryApplyPatch call the dry run of patch comes first; the
\* real patch runs only after a dry run that exited 0, the check of git apply
\* only after a dry run that failed, the real git apply only after a check
\* that exited 0; at most one modifying command runs, and git is not tried
\* once the dry run was accepted, even when the real patch then fails.
OrderedFallback ==
  callCmds # <<>> =>
    /\ PlacesOf("patchDryRun") = {1}
    /\ Len(callEvents) >= Len(callCmds) - 1
    /\ PlacesOf("patch") \subseteq {2}
    /\ PlacesOf("patch") # {} => Succeeded(callEvents[1])
    /\ PlacesOf("gitCheck") \subseteq {2}
    /\ PlacesOf("gitCheck") # {} => ~Succeeded(callEvents[1])
    /\ PlacesOf("gitApply") \subseteq {3}
    /\ PlacesOf("gitApply") # {} =>
         callCmds[2] = "gitCheck" /\ Succeeded(callEvents[2])
    /\ Cardinality({i \in 1..Len(callCmds) : callCmds[i] \in ModifyingCmds}) <= 1
    /\ PlacesOf("patch") # {} => PlacesOf("gitCheck") \cup PlacesOf("gitApply") = {}
    /\ \A i \in 1..Len(callCmds) : callCmds[i] \in ApplierCmds

\* the dry run was accepted, the real patch failed, and the call returned
\* without trying git
OrderedFallbackWitness ==
  /\ Returned
  /\ callCmds = <<"patchDryRun", "patch">>
  /\ Succeeded(callEvents[1])
  /\ callEvents[2] = <<"closeFail">>
  /\ Ret = [success |-> FALSE, canApply |-> TRUE]

\* the place of a position of the top-level code in the order of the steps
StepOf(p) ==
  CASE p = "args" -> 0
    [] p = "start" -> 1
    [] p = "locate" -> 2
    [] p \in ApplyPcs -> 3
    [] p = "yarnPatch" -> 4
    [] p = "sync" -> 5
    [] p = "finalize" -> 6
    [] p = "cleanup" -> 7
    [] p = "done" -> 8
    [] OTHER -> 9

\* this step is the synchronous part of a runCommand call
Spawns == rc' # rc /\ rc'.child = "running" /\ rc'.events = <<>> /\ rc'.stdout = <<>>

\* C14: the steps come in the order Start, LocateExisting, ApplyExisting,
\* RunExternalPatchWorkflow, SyncEdits, FinalizePatch, Cleanup, Done; the
\* patches are applied one at a time in the located order; a command is
\* spawned only when no other is running; yarn patch, rsync and yarn
\* patch-commit are run at most once; outside ApplyExisting the next step is
\* taken only after the command before it closed with code 0, and a run that
\* stops early ends with status 1.
StepsInOrder ==
  [][/\ pc' # pc =>
          \/ StepOf(pc') = StepOf(pc)
          \/ StepOf(pc') = StepOf(pc) + 1
          \/ pc = "finalize" /\ pc' = "done"
          \/ pc' = "exited"
     /\ (pc' = "exited" /\ pc \notin {"args", "exited"}) => exitCode' = <<1>>
     /\ pc' = "done" => exitCode' = <<0>>
     /\ attempted' = SubSeq(existingPatches', 1, Len(attempted'))
     /\ pc' \in {"dryRun", "patchApply", "gitCheck", "gitApply"} => Len(attempted') = pi'
     /\ Spawns =>
          /\ rc.child # "running"
          /\ rc'.cmd \notin ApplierCmds => rc'.cmd \notin ran
          /\ rc'.cmd = "patchDryRun" => Len(attempted') = Len(attempted) + 1
     /\ (pc = "start" /\ pc' = "locate") => cleanPackageName \in installed
     /\ (pc \in {"yarnPatch", "sync", "finalize"} /\ StepOf(pc') \in {StepOf(pc) + 1, 8}) =>
          Succeeded(rc.events)]_vars

\* two patches were applied in turn, the three commands ran, and the old
\* patches were deleted
StepsInOrderWitness ==
  /\ pc = "done"
  /\ Len(attempted) = 2
  /\ attempted = existingPatches
  /\ {"yarnPatch", "rsync", "patchCommit"} \subseteq ran
  /\ deleted = Before

\* C15: a patch file is deleted only after yarn patch-commit closed with
\* code 0 and the locator, run again, found a name that was not there before;
\* every deleted file is one of the patches located at the start, none is a
\* newly created patch, and the driver changes the patches directory by
\* deleting only: its content is what was there at the start plus what yarn
\* patch-commit wrote, minus the deleted old patches.
DeletionIsSafe ==
  /\ (deleted \cup unlinkFailed # {}) =>
       /\ pc \in {"cleanup", "done"}
       /\ rc.cmd = "patchCommit"
       /\ Succeeded(rc.events)
       /\ BaseNames(findExistingPatches(cleanPackageName, TRUE, dirAtFinalize)) \ Before # {}
  /\ deleted \subseteq Before
  /\ deleted \cap created = {}
  /\ created \ Before \subseteq dir
  /\ dir = (dirAtStart \cup created) \ deleted

\* an old patch was deleted and the new one is in place
DeletionIsSafeWitness ==
  /\ deleted # {}
  /\ created \ Before # {}
  /\ created \subseteq dir
  /\ pc = "done"

\* yarn patch handed back an output that lacks one of the two phrases
Unparsed ==
  /\ pc = "yarnPatch"
  /\ rc.settled
  /\ \E phrase \in Phrases : \A i \in 1..Len(rc.result.stdout) : rc.result.stdout[i] # phrase

\* C16: when the output of yarn patch lacks the staging-folder phrase or the
\* finalize-command phrase, the next step of the run is its exit with
\* status 1: neither rsync nor yarn patch-commit has run or runs, no patch
\* file has been or is deleted, and nothing happens after the exit.
ParseFailureStopsRun ==
  [][/\ pc # "exited"
     /\ Unparsed =>
          /\ pc' = "exited"
          /\ exitCode' = <<FailureStatus>>
          /\ ran' = ran
          /\ {"rsync", "patchCommit"} \cap ran' = {}
          /\ deleted' = {} /\ unlinkFailed' = {}
          /\ dir' = dirAtStart
          /\ rc' = rc]_vars

\* yarn patch closed with code 0 and printed the folder phrase but not the
\* command phrase, with old patches present, and the run has exited
ParseFailureWitness ==
  /\ pc = "exited"
  /\ rc.cmd = "yarnPatch"
  /\ rc.settled
  /\ Succeeded(rc.events)
  /\ folderMatch(rc.result.stdout)
  /\ ~commandMatch(rc.result.stdout)
  /\ Before # {}

\* C19: every run ends: the top-level code reaches its end and the process
\* ends with status 0, or the process exits, with status 1 once the driver
\* has started (the usage and version texts exit with 0 before that).
RunTerminates ==
  <>(\/ pc = "done" /\ exitCode = <<0>>
     \/ pc = "exited" /\ exitCode = <<FailureStatus>>
     \/ pc = "exited" /\ exitCode = <<0>> /\ ran = {} /\ attempted = <<>>)

\* the apply loop went over two patches, and the run ended when rsync, which
\* did not close by itself, was killed by the timeout
RunTerminatesWitness ==
  /\ pc = "exited"
  /\ exitCode = <<FailureStatus>>
  /\ Len(attempted) = 2
  /\ rc.cmd = "rsync"
  /\ rc.killed
  /\ rc.events = <<"timer", "closeFail">>

\* C17: a failed deletion does not end the run: every step of the cleanup
\* goes on to the next old patch or, after the last one, to the end of the
\* program with status 0, so that a deletion was attempted for every old
\* patch; and a cleanup in which a deletion failed does reach that end.
DeletionFailureNotFatal ==
  /\ [][pc = "cleanup" =>
          /\ pc' \in {"cleanup", "done"}
          /\ pc' = "cleanup" =>
               /\ di' = di + 1
               /\ deleted' \cup unlinkFailed' = BaseNames(SubSeq(existingPatches, 1, di))
          /\ pc' = "done" =>
               /\ exitCode' = <<0>>
               /\ deleted \cup unlinkFailed = Before]_vars
  /\ (pc = "cleanup" /\ unlinkFailed # {}) ~>
       (pc = "done" /\ exitCode = <<0>> /\ deleted \cup unlinkFailed = Before)

\* the deletion of the first old patch failed, the second was deleted all
\* the same, and the run ended with status 0
DeletionFailureWitness ==
  /\ pc = "done"
  /\ exitCode = <<0>>
  /\ Len(existingPatches) = 2
  /\ basename(existingPatches[1]) \in unlinkFailed
  /\ basename(existingPatches[2]) \in deleted

\* 'close' or 'error' of the current call's child has been handled
Handled == rc.child \in {"closed", "errored"}

\* this step is a callback of the current runCommand call
Callback == rc' # rc /\ ~Spawns

\* C18: whatever the order of the callbacks of one runCommand call, the call
\* has one outcome: nothing is delivered while the child runs; once 'close'
\* or 'error' is handled either a result is delivered or the process has
\* exited, never both; a delivered result never changes afterwards. A result
\* says timedOut only when the timer fired first and 'close' was handled
\* next. Once 'close' or 'error' is handled the timer is disarmed and neither
\* fires nor kills the child.
OneOutcomePerCall ==
  /\ [](/\ rc.child = "running" => ~rc.settled /\ pc # "exited"
        /\ (Handled /\ ~rc.settled) => pc = "exited"
        /\ Handled => ~rc.timerArmed
        /\ (rc.settled /\ rc.result.timedOut) =>
             /\ Len(rc.events) = 2
             /\ rc.events[1] = "timer"
             /\ rc.events[2] \in {"close0", "closeFail"}
             /\ rc.result.code = TimeoutCode)
  /\ [][Callback =>
          /\ rc.settled => rc'.settled /\ rc'.result = rc.result /\ pc' # "exited"
          /\ pc' = "exited" => ~rc'.settled
          /\ Handled =>
               /\ rc'.timedOut = rc.timedOut
               /\ rc'.killed = rc.killed
               /\ rc'.events[Len(rc'.events)] # "timer"]_vars

\* the timer fired, then 'error' delivered a result that is not a timeout,
\* then the late 'close' found timedOut set and changed nothing
OneOutcomeWitness ==
  /\ rc.events = <<"timer", "error", "closeLate">>
  /\ rc.settled
  /\ rc.timedOut
  /\ ~rc.result.timedOut
  /\ rc.result.code = ErrorCode

\* ------------------------------------------------------------------------
\* Specification for stripVersion: identifiers built from a scope, a name
\* and a version/tag suffix, then stripped once and once more.
\* ------------------------------------------------------------------------
SeqsUpTo(S, n) == UNION {[1..k -> S] : k \in 0..n}

\* a name or scope holds no "@"; a suffix may hold anything
NameChars == {"a", "-", "/"}
SuffixChars == {"1", "@", "/"}
Names == SeqsUpTo(NameChars, MaxName) \ {<<>>}
Suffixes == SeqsUpTo(SuffixChars, MaxSuffix)

\* scope = <<>> means unscoped
BareName(parts) ==
  IF parts.scope = <<>> THEN parts.name
  ELSE <<"@">> \o parts.scope \o <<"/">> \o parts.name

Identifier(parts) ==
  IF parts.hasSuffix THEN BareName(parts) \o <<"@">> \o parts.suffix
  ELSE BareName(parts)

\* the driver does not run in this specification
DriverIdle ==
  /\ args = <<>>
  /\ installed = {}
  /\ dirExists = FALSE
  /\ dirReadable = TRUE
  /\ dirExistsAtStart = FALSE
  /\ dir = {}
  /\ pc = "idle"
  /\ DriverStart

SvInit ==
  /\ svParts \in [scope : Names \cup {<<>>}, name : Names,
                  hasSuffix : BOOLEAN, suffix : Suffixes]
  /\ svParts.hasSuffix \/ svParts.suffix = <<>>
  /\ svIdent = Identifier(svParts)
  /\ svOut = <<>>
  /\ svAgain = <<>>
  /\ svPc = "input"
  /\ DriverIdle

SvStrip ==
  /\ svPc = "input"
  /\ svOut' = stripVersion(svIdent)
  /\ svPc' = "stripped"
  /\ UNCHANGED <<svParts, svIdent, svAgain>>
  /\ UNCHANGED <<envVars, fsVars, drvVars, rc, histVars>>

SvStripAgain ==
  /\ svPc = "stripped"
  /\ svAgain' = stripVersion(svOut)
  /\ svPc' = "restripped"
  /\ UNCHANGED <<svParts, svIdent, svOut>>
  /\ UNCHANGED <<envVars, fsVars, drvVars, rc, histVars>>

SvNext == SvStrip \/ SvStripAgain

SpecStrip == SvInit /\ [][SvNext]_vars

\* C7: stripVersion removes the version/tag suffix and keeps the scope: the
\* result is the bare (scoped or unscoped) name, it has no "@" after its
\* first character, and stripping it again changes nothing.
StripVersionRemovesSuffix ==
  /\ svPc \in {"stripped", "restripped"} =>
       /\ svOut = BareName(svParts)
       /\ \A i \in 2..Len(svOut) : svOut[i] # "@"
  /\ svPc = "restripped" => svAgain = svOut

\* a scoped identifier whose suffix itself holds "@" and "/" was stripped twice
StripVersionWitness ==
  /\ svPc = "restripped"
  /\ svParts.scope # <<>>
  /\ svParts.hasSuffix
  /\ svParts.suffix = <<"@", "/">>
  /\ svOut # svIdent

====
